---- MODULE Spec2Model ----
(***************************************************************************)
(* Servelet: the page registry (directory scan, static/dynamic page cache, *)
(* targeted and full static reload) and the render engine (loadPage,       *)
(* include, layout) of src/index.js, and the queueing serve of the earlier *)
(* snapshot src/unnamed/part_000.                                          *)
(*                                                                         *)
(* A JavaScript string is a sequence of atoms (short TLA+ strings), so     *)
(* that concatenation, split(':'), replace(/\//g, '') and path.parse are   *)
(* computed, not assumed.  A JavaScript value is a record [t, v, o]: its   *)
(* type tag, its text (or its array of strings) and the heap object it is  *)
(* bound to (0: none).                                                     *)
(***************************************************************************)
EXTENDS Integers, Sequences, FiniteSets, TLC

\* ------------------------------------------------------------------ bounds
MaxReloads == 1
MaxVersion == 2
MaxServes == 2
MaxGlobal == 1
MaxOverlap == 2

\* --------------------------------------------------------------- JS values
Str(s) == [t |-> "string", v |-> s, o |-> 0]
Arr(a) == [t |-> "array", v |-> a, o |-> 0]
Fn(name, obj) == [t |-> "function", v |-> <<name>>, o |-> obj]
Num(i) == [t |-> "number", v |-> <<>>, o |-> i]
Err(msg) == [t |-> "Error", v |-> msg, o |-> 0]
Undefined == [t |-> "undefined", v |-> <<>>, o |-> 0]
Null == [t |-> "null", v |-> <<>>, o |-> 0]
TypeError == [t |-> "TypeError", v |-> <<"callback is not a function">>, o |-> 0]

\* String.prototype.split(sep) for a one-atom separator.
RECURSIVE Split(_, _)
Split(s, sep) ==
  IF \A i \in 1..Len(s) : s[i] # sep THEN <<s>>
  ELSE LET i == CHOOSE j \in 1..Len(s) : s[j] = sep /\ \A k \in 1..(j-1) : s[k] # sep
       IN <<SubSeq(s, 1, i-1)>> \o Split(SubSeq(s, i+1, Len(s)), sep)

\* str.replace(/\//g, '')
NoSlash(s) == SelectSeq(s, LAMBDA c : c # "/")

\* str.indexOf(sub) >= 0
Contains(s, sub) ==
  \E i \in 0..(Len(s) - Len(sub)) : SubSeq(s, i+1, i+Len(sub)) = sub

\* ext.replace('.', ''): the first dot only
DropDot(ext) ==
  IF \E i \in 1..Len(ext) : ext[i] = "."
  THEN LET i == CHOOSE j \in 1..Len(ext) : ext[j] = "." /\ \A k \in 1..(j-1) : ext[k] # "."
       IN SubSeq(ext, 1, i-1) \o SubSeq(ext, i+1, Len(ext))
  ELSE ext

\* path.parse(file) for a bare file name: ext runs from the last dot that is
\* not the first character; name is what precedes it; base is the whole.
parse(file) ==
  LET dots == {i \in 2..Len(file) : file[i] = "."}
      d == IF dots = {} THEN Len(file) + 1
           ELSE CHOOSE i \in dots : \A j \in dots : j <= i
  IN [base |-> file, name |-> SubSeq(file, 1, d-1), ext |-> SubSeq(file, d, Len(file))]

\* ----------------------------------------------------------------- options
\* The defaults of src/index.js after the constructor's split(';').
optViews == <<"views">>
optPartials == <<"partials">>
staticExt == Split(<<"html">>, ";")
dynamicExt == Split(<<"js">>, ";")
InList(list, x) == \E i \in 1..Len(list) : list[i] = x

getDirectory(folder) == folder \o <<"/">>

getPages(page) ==
  << NoSlash(optViews \o page), NoSlash(optViews \o optPartials \o page) >>

viewsDir == optViews
partialsDir == optViews \o <<"/">> \o optPartials

\* ------------------------------------------------------- the files on disk
\* The names readdir returns for the two roots.  A static file's text is a
\* version number in disk (0: the file does not exist).
IndexHtml == <<"index", ".", "html">>
NavHtml == <<"nav", ".", "html">>
HomeJs == <<"home", ".", "js">>
LayoutJs == <<"layout", ".", "js">>
MsgJs == <<"msg", ".", "js">>
BoomJs == <<"boom", ".", "js">>
\* Files and a subdirectory that only some installations have: a module whose
\* require throws, a module that exports no function, views/sub with x.html
\* and notes.txt in it, and views/subx.html.
BadJs == <<"bad", ".", "js">>
DataJs == <<"data", ".", "js">>
Sub == <<"sub">>
XHtml == <<"x", ".", "html">>
NotesTxt == <<"notes", ".", "txt">>
SubXHtml == <<"sub", "x", ".", "html">>
subDir == viewsDir \o <<"/">> \o Sub
\* A regular file without an extension, and a static file named like home.js.
License == <<"LICENSE">>
HomeHtml == <<"home", ".", "html">>

EditablePaths == { getDirectory(viewsDir) \o IndexHtml }
StaticPaths == { getDirectory(viewsDir) \o IndexHtml, getDirectory(partialsDir) \o NavHtml }

Members(dir) ==
  IF dir = viewsDir
  THEN <<License, BadJs, DataJs, HomeHtml, HomeJs, IndexHtml, LayoutJs, optPartials, Sub,
         SubXHtml>>
  ELSE IF dir = partialsDir THEN <<BoomJs, MsgJs, NavHtml>>
  ELSE IF dir = subDir THEN <<NotesTxt, XHtml>>
  ELSE <<>>

\* What require(path) evaluates to: the page author's function.
\*   interp     (data) => runs the command held in the caller's data
\*   layoutpage (data) => '<L>' + data.body + '</L>'
\*   msg        (data) => 'msg:' + data.name
\*   boom       (data) => { throw new Error('boom') }
\*   notfn      an object, not a function
\*   missing    require throws
ModuleOf(path) ==
  IF path = getDirectory(viewsDir) \o HomeJs THEN "interp"
  ELSE IF path = getDirectory(viewsDir) \o LayoutJs THEN "layoutpage"
  ELSE IF path = getDirectory(partialsDir) \o MsgJs THEN "msg"
  ELSE IF path = getDirectory(partialsDir) \o BoomJs THEN "boom"
  ELSE IF path = getDirectory(viewsDir) \o DataJs THEN "notfn"
  ELSE "missing"

VerTok(n) == <<"v1", "v2", "v3", "v4", "v5">>[n]
FileText(path, n) == path \o <<":", VerTok(n)>>

\* ------------------------------------------------------------------- state
VARIABLES
  _ready,      \* Servelet._ready
  _error,      \* Servelet._error
  _warning,    \* Servelet._warning
  listeners,   \* the events that have a handler subscribed (emitter)
  views,       \* Servelet.views: key -> entry
  partials,    \* Servelet.partials: key -> entry
  globalData,  \* options.globalData
  disk,        \* path -> version of a static file's text / 1 for a directory; 0 when absent
  pending,     \* the fs calls in flight
  scans,       \* per initAllPages call: its closure (type, cb, completed, total) and
               \* what cb has been called with (got), whether a listing, read
               \* or module load of it has failed (failed)
  listings,    \* per readdir callback: its closure (completedFiles, totalFiles)
  callbacks,   \* per reloadStaticPage call: its callback argument and what it received
  crashed,     \* an exception left a fs callback uncaught: the process is gone
  serves,      \* part_000: the queue of deferred serve calls
  delivered,   \* the serve callbacks invoked so far, in order
  issued,      \* the number of serve calls issued so far
  last         \* the outcome of the API call made in the latest step, if it was one

vars == << _ready, _error, _warning, listeners, views, partials, globalData, disk,
           pending, scans, listings, callbacks, crashed, serves, delivered, issued, last >>

\* A call tree (an API call, or one fs callback) runs on a machine m: the
\* instance's fields plus the heap of data objects of the call, the exception
\* in flight, the events delivered to handlers (emitted), the producers
\* invoked (calls) and the serve callbacks invoked (out).
\* impl tells the snapshot that is running: "index" (src/index.js) or
\* "part_000" (src/unnamed/part_000).
Cur(impl) ==
  [impl |-> impl, heap |-> <<>>, calls |-> <<>>, emitted |-> <<>>,
   threw |-> FALSE, exc |-> Null,
   ready |-> _ready, error |-> _error, warning |-> _warning,
   views |-> views, partials |-> partials, pending |-> pending, scans |-> scans,
   listings |-> listings, callbacks |-> callbacks, serves |-> serves,
   out |-> <<>>]

Ret(m, v) == [m |-> m, res |-> v]
Throw(m, e) == [m EXCEPT !.threw = TRUE, !.exc = e]
Caught(m) == [m EXCEPT !.threw = FALSE, !.exc = Null]

\* ----------------------------------------------------------------- signals
\* set error (err): emit first, then store.  EventEmitter.emit('error', err)
\* throws err when no 'error' listener is subscribed, so the store is skipped.
setError(m, err) ==
  IF err # Null
  THEN IF "error" \in listeners
       THEN [m EXCEPT !.emitted = Append(@, <<"error", err, m.ready>>), !.error = err]
       ELSE Throw(m, err)
  ELSE [m EXCEPT !.error = err]

setWarning(m, warn) ==
  IF warn # Null /\ "warning" \in listeners
  THEN [m EXCEPT !.emitted = Append(@, <<"warning", warn, m.ready>>), !.warning = warn]
  ELSE [m EXCEPT !.warning = warn]

\* set ready (status): the 'ready' handlers run before _ready is stored.
setReady(m, status) ==
  IF status = TRUE /\ "ready" \in listeners
  THEN [m EXCEPT !.emitted = Append(@, <<"ready", Null, m.ready>>), !.ready = status]
  ELSE [m EXCEPT !.ready = status]

\* ---------------------------------------------------------- render engine
\* An operator that continues after a call takes the call's outcome r (the
\* machine r.m and the value returned r.res) as its argument.
\* Page names, field names and html fragments used below.
Index == <<"index">>
Home == <<"home">>
Nav == <<"nav">>
Msg == <<"msg">>
Boom == <<"boom">>
Missing == <<"missing">>
Body == <<"body">>
Side == <<"side">>
Colon == <<":">>
Hi == <<"<p>hi</p>">>
Aside == <<"<i>x</i>">>

Global == <<"global">>
Include == <<"include">>
Layout == <<"layout">>
NoFields == [k \in {} |-> Undefined]

NotFoundMsg(page) == <<"The ">> \o page \o <<" page could not be found.">>
ErrorMsg(page) == <<"An error has occurred within the dynamic ">> \o page \o <<" page.">>
IncludeMsg(page) == <<"Could not find the ">> \o page \o <<" include file.">>

\* The key a page name is looked up under: getPages(page)[0] / [1] in
\* index.js, the bare name in part_000.
viewKey(m, page) == IF m.impl = "index" THEN getPages(page)[1] ELSE page
partialKey(m, page) == IF m.impl = "index" THEN getPages(page)[2] ELSE page

\* A createDataObject that adds the three fields to the caller's own object.
createDataObjectInPlace(m, data) ==
  Ret([m EXCEPT !.heap[data].fields =
            (Layout :> Fn("layout", data))
            @@ (Include :> Fn("include", data))
            @@ (Global :> globalData) @@ @],
      data)

createDataObject(m, data) ==
  Ret([m EXCEPT !.heap = Append(@,
         [m.heap[data] EXCEPT !.fields =
            (Layout :> Fn("layout", Len(m.heap) + 1))
            @@ (Include :> Fn("include", Len(m.heap) + 1))
            @@ (Global :> globalData) @@ @])],
      Len(m.heap) + 1)

\* htmlData of layout: pages[i] bound to html[i-1] || '', a later i winning.
layoutBindings(pages, html) ==
  [k \in {pages[i] : i \in 2..Len(pages)} |->
     LET i == CHOOSE j \in 2..Len(pages) :
                 pages[j] = k /\ \A n \in 2..Len(pages) : pages[n] = k => n <= j
     IN IF i - 1 <= Len(html) THEN Str(html[i-1]) ELSE Str(<<>>)]

RECURSIVE loadPage(_, _, _, _)
RECURSIVE includePartial(_, _, _)
RECURSIVE forEachInclude(_, _, _, _)
RECURSIVE Invoke(_, _, _, _)

\* include (data, page, newData): includePartial on Object.assign({}, data, newData)
include(m, data, page, newData) ==
  includePartial([m EXCEPT !.heap = Append(@, [m.heap[data] EXCEPT !.fields = newData @@ @])],
                 page, Len(m.heap) + 1)

\* layout (data, page, html): the test is on page[0], the first character of
\* the spec, not on pages[0], its first segment.
layout(m, data, page, html) ==
  IF Len(page) > 0
  THEN loadPage([m EXCEPT !.heap[data].fields = layoutBindings(Split(page, ":"), html) @@ @],
                Split(page, ":")[1], data, TRUE)
  ELSE Ret(m, Arr(html))

FieldText(o, k) == IF k \in DOMAIN o.fields THEN o.fields[k].v ELSE <<"undefined">>

\* The page author's function prog runs on the data object o (heap index data)
\* of machine m.
Run(m, prog, content, o) ==
  CASE prog = "static" -> Ret(m, Str(content))
    [] prog = "empty" -> Ret(m, Str(<<>>))
    [] prog = "noop" -> Ret(m, Undefined)
    [] prog = "boom" -> Ret(Throw(m, Err(<<"boom">>)), Undefined)
    [] prog = "msg" -> Ret(m, Str(<<"msg:">> \o FieldText(o, <<"name">>)))
    [] prog = "layoutpage" -> Ret(m, Str(<<"<L>">> \o FieldText(o, Body) \o <<"</L>">>))
    [] prog = "interp" /\ o.cmd.op = "throw" -> Ret(Throw(m, Err(<<"page failed">>)), Undefined)
    [] prog = "interp" /\ o.cmd.op = "include" ->
         IF o.fields[Include].t = "function"
         THEN include(m, o.fields[Include].o, o.cmd.names, o.cmd.extra)
         ELSE Ret(Throw(m, TypeError), Undefined)
    [] prog = "interp" /\ o.cmd.op = "layout" ->
         IF o.fields[Layout].t = "function"
         THEN layout(m, o.fields[Layout].o, o.cmd.spec, o.cmd.parts)
         ELSE Ret(Throw(m, TypeError), Undefined)
    [] OTHER -> Ret(m, Str(<<"home k=", VerTok(o.fields[Global].o + 1)>>))

\* The call views[key](data) or partials[key](data).
Invoke(m, ns, key, data) ==
  Run([m EXCEPT !.calls = Append(@, [ns |-> ns, key |-> key, obj |-> data,
                                     fields |-> m.heap[data].fields])],
      IF ns = "views" THEN m.views[key].prog ELSE m.partials[key].prog,
      IF ns = "views" THEN m.views[key].content ELSE m.partials[key].content,
      m.heap[data])

forEachNext(r, names, i, data) ==
  IF r.m.threw THEN r.m ELSE forEachInclude(r.m, names, i + 1, data)

\* page.forEach((p) => { this.includePartial(p, data); })
forEachInclude(m, names, i, data) ==
  IF i > Len(names) THEN m
  ELSE forEachNext(includePartial(m, Str(names[i]), data), names, i, data)

\* The catch block of includePartial.
includeCatch(r) ==
  IF r.m.threw THEN Ret(setError(Caught(r.m), r.m.exc), Str(<<>>)) ELSE r

includePartial(m, page, data) ==
  IF page.t = "array"
  THEN Ret(forEachInclude(m, page.v, 1, data), Undefined)
  ELSE IF partialKey(m, page.v) \in DOMAIN m.partials
       THEN includeCatch(Invoke(m, "partials", partialKey(m, page.v), data))
       ELSE Ret(setError(m, Err(IncludeMsg(page.v))), Str(<<>>))

\* The catch block of loadPage.
loadPageCatch(r, page) ==
  IF r.m.threw THEN Ret(setError(Caught(r.m), r.m.exc), Str(ErrorMsg(page))) ELSE r

\* views[fullPage](allData), allData being the outcome c of createDataObject
\* or the data object of a layout call
loadPageCall(c, fullPage) == Invoke(c.m, "views", fullPage, c.res)

\* A loadPage that ignores its layout flag: a data object is built for every page.
loadPageFresh(m, page, data, isLayout) ==
  IF viewKey(m, page) \in DOMAIN m.views
  THEN loadPageCatch(loadPageCall(createDataObject(m, data), viewKey(m, page)), page)
  ELSE Ret(setError(m, Err(NotFoundMsg(page))), Str(NotFoundMsg(page)))

loadPage(m, page, data, isLayout) ==
  IF viewKey(m, page) \in DOMAIN m.views
  THEN loadPageCatch(
         loadPageCall(IF isLayout THEN Ret(m, data) ELSE createDataObject(m, data),
                      viewKey(m, page)),
         page)
  ELSE Ret(setError(m, Err(NotFoundMsg(page))), Str(NotFoundMsg(page)))

\* ---------------------------------------------------------------- serving
This == [t |-> "this", v |-> <<>>, o |-> 0]

\* callback(str) of a serve call
deliver(m, callback, str) == [m EXCEPT !.out = Append(@, [cb |-> callback.o, arg |-> str])]

\* What serve does with the string r.res that loadPage returned.
serveResult(r, impl, callback) ==
  IF r.m.threw THEN r
  ELSE IF callback.t = "function"
       THEN Ret(deliver(r.m, callback, r.res), IF impl = "part_000" THEN This ELSE Undefined)
       ELSE IF impl = "part_000" THEN r
            ELSE Ret(Throw(r.m, TypeError), Undefined)

\* A serve that renders at once, ready or not.
serveAtOnce(m, page, cmd, callback) ==
  serveResult(loadPage([m EXCEPT !.heap = Append(@, [fields |-> NoFields, cmd |-> cmd])],
                       page, Len(m.heap) + 1, FALSE),
              m.impl, callback)

\* API.serve(page, data, callback).  index.js renders and calls callback;
\* part_000 queues the call while ready is false, and returns the string
\* when no callback is given.
serve(m, page, cmd, callback) ==
  IF m.impl = "part_000" /\ ~m.ready
  THEN Ret([m EXCEPT !.serves = Append(@, [page |-> page, cmd |-> cmd, cb |-> callback])],
           This)
  ELSE serveResult(loadPage([m EXCEPT !.heap = Append(@, [fields |-> NoFields, cmd |-> cmd])],
                            page, Len(m.heap) + 1, FALSE),
                   m.impl, callback)

\* serveAll () { this.serves.forEach((s) => s()); }  forEach visits the
\* elements present when it starts; s() is this.serve(page, data, callback).
RECURSIVE serveEach(_, _, _)
serveNext(r, i, n) == IF r.m.threw THEN r.m ELSE serveEach(r.m, i + 1, n)

serveEach(m, i, n) ==
  IF i > n THEN m
  ELSE serveNext(serve(m, m.serves[i].page, m.serves[i].cmd, m.serves[i].cb), i, n)

serveAll(m) == serveEach(m, 1, Len(m.serves))

\* --------------------------------------------------------------- registry
\* The callbacks handed to initAllPages and initPage.
InitCb == [k |-> "init", sid |-> 0, dir |-> <<>>, call |-> 0]
CompleteCb(r) == [k |-> "complete", sid |-> 0, dir |-> <<>>, call |-> r]
FileCompleteCb(sid, dir) == [k |-> "fileComplete", sid |-> sid, dir |-> dir, call |-> 0]

\* A fs call in flight.  data is what a readFile has read so far: Unread, or the
\* version of the text it found (0: no such file).
Unread == -1
ReadDir(sid, dir) ==
  [op |-> "readdir", sid |-> sid, dir |-> dir, path |-> getDirectory(dir),
   page |-> parse(<<>>), cb |-> InitCb, data |-> Unread]
ReadFile(path, dir, page, cb) ==
  [op |-> "readFile", sid |-> cb.sid, dir |-> dir, path |-> path, page |-> page, cb |-> cb,
   data |-> Unread]

FixedPaths ==
  { getDirectory(viewsDir) \o f : f \in {HomeJs, LayoutJs} }
  \cup { getDirectory(partialsDir) \o f : f \in {MsgJs, BoomJs} }
Exists(path) == IF path \in DOMAIN disk THEN disk[path] # 0 ELSE path \in FixedPaths
Listed(dir) ==
  SelectSeq(Members(dir), LAMBDA f : Exists(getDirectory(dir) \o f)
                                     \/ Exists(getDirectory(dir) \o f \o <<"/">>))

\* this.ready = true, unless serveAll threw
readyAfter(m) == IF m.threw THEN m ELSE setReady(m, TRUE)

\* The constructor's callback to initAllPages.
initCallback(m, err) ==
  IF err # Null THEN setError(m, err)
  ELSE readyAfter(IF m.impl = "part_000" THEN serveAll(m) ELSE m)

\* callback(arg) of reloadStaticPage call r
invokeCallback(m, r, arg) ==
  IF m.callbacks[r].fn.t = "function"
  THEN [m EXCEPT !.callbacks[r].args = Append(@, arg)]
  ELSE Throw(m, TypeError)

\* complete(err) of reloadStaticPage call r
complete(m, r, err) == invokeCallback(m, r, IF err # Null THEN err ELSE Null)

\* cb(err) of initAllPages call sid: the constructor's callback, or complete
\* of a full reload
scanDispatch(m, sid, err) ==
  IF m.scans[sid].cb.k = "init" THEN initCallback(m, err)
  ELSE complete(m, m.scans[sid].cb.call, err)

scanCallback(m, sid, err) ==
  scanDispatch([m EXCEPT !.scans[sid].got = Append(@, err)], sid, err)

\* if (++completed === total) cb(null), on the machine m whose completed is
\* already incremented
allComplete(m, sid) ==
  IF m.scans[sid].completed = m.scans[sid].total THEN scanCallback(m, sid, Null) ELSE m

checkCompletion(m, sid, dir) ==
  IF m.listings[<<sid, dir>>].completedFiles = m.listings[<<sid, dir>>].totalFiles
  THEN allComplete([m EXCEPT !.scans[sid].completed = @ + 1], sid)
  ELSE m

\* A fileComplete that reports the error and counts the file as completed.
fileCompleteCounted(m, sid, dir, err) ==
  checkCompletion([(IF err # Null THEN scanCallback(m, sid, err) ELSE m)
                     EXCEPT !.listings[<<sid, dir>>].completedFiles = @ + 1], sid, dir)

fileComplete(m, sid, dir, err) ==
  IF err # Null THEN scanCallback(m, sid, err)
  ELSE checkCompletion([m EXCEPT !.listings[<<sid, dir>>].completedFiles = @ + 1], sid, dir)

\* cb(err) of initPage: fileComplete of a listing, or complete of a reload
pageCallback(m, cb, err) ==
  IF cb.k = "fileComplete" THEN fileComplete(m, cb.sid, cb.dir, err)
  ELSE complete(m, cb.call, err)

displayType(m, dir) ==
  IF m.impl = "index"
  THEN IF Contains(dir, optViews \o <<"/">> \o optPartials) THEN "partials" ELSE "views"
  ELSE IF dir = viewsDir THEN "views" ELSE "partials"

pageName(m, dir, page) == IF m.impl = "index" THEN NoSlash(dir) \o page.name ELSE page.name

Entry(type, ext, page, dir, content, prog) ==
  [type |-> type, ext |-> ext, page |-> page, dir |-> dir, content |-> content, prog |-> prog]

setEntry(m, ns, name, e) ==
  IF ns = "views" THEN [m EXCEPT !.views = (name :> e) @@ @]
  ELSE [m EXCEPT !.partials = (name :> e) @@ @]

WarnMsg(name) ==
  <<"The ">> \o name \o <<" dynamic page did not export a module to build the page content.">>

\* A try block that keeps whatever the module exports as the entry.
requirePageAsIs(m, ns, name, ext, mod) ==
  IF mod = "missing" THEN Throw(m, Err(<<"require failed">>))
  ELSE setEntry(m, ns, name, Entry("dynamic", ext, <<>>, <<>>, <<>>, mod))

\* The try block of initPage's dynamic branch up to cb(null): the module is
\* required and stored; a module that is no function is replaced, with a warning.
requirePage(m, ns, name, ext, mod) ==
  IF mod = "missing" THEN Throw(m, Err(<<"require failed">>))
  ELSE IF mod = "notfn"
  THEN setEntry(setWarning(m, Str(WarnMsg(name))), ns, name,
                Entry("dynamic", ext, <<>>, <<>>, <<>>, "noop"))
  ELSE setEntry(m, ns, name, Entry("dynamic", ext, <<>>, <<>>, <<>>, mod))

\* The catch block of initPage's dynamic branch.
requireCatch(m, ns, name, ext, cb) ==
  IF m.threw
  THEN pageCallback(setEntry(Caught(m), ns, name,
                             Entry("dynamic", ext, <<>>, <<>>, <<>>, "empty")), cb, m.exc)
  ELSE m

\* cb(null) inside the try block
requireDone(m, cb) == IF m.threw THEN m ELSE pageCallback(m, cb, Null)

\* initPage (dir, page, cb, isStatic); initStaticPage / initDynamicPage in part_000
initPage(m, dir, page, cb, isStatic) ==
  IF isStatic
  THEN [m EXCEPT !.pending = @ \cup {ReadFile(getDirectory(dir) \o page.base, dir, page, cb)}]
  ELSE requireCatch(
         requireDone(requirePage(m, displayType(m, dir), pageName(m, dir, page), page.ext,
                                 ModuleOf(getDirectory(dir) \o page.base)),
                     cb),
         displayType(m, dir), pageName(m, dir, page), page.ext, cb)

\* A readFile callback that, when the read fails, resets the entry to empty
\* content before it reports the error.
readFileCallbackResets(m, op) ==
  pageCallback(
    setEntry(m, displayType(m, op.dir), pageName(m, op.dir, op.page),
             Entry("static", op.page.ext,
                   IF m.impl = "index" THEN op.page.name ELSE <<>>,
                   IF m.impl = "index" THEN op.dir ELSE <<>>,
                   IF op.data = 0 THEN <<>> ELSE FileText(op.path, op.data), "static")),
    op.cb,
    IF op.data = 0 THEN Err(<<"ENOENT">>) ELSE Null)

\* A readFile callback that leaves an entry that is already cached as it is.
readFileCallbackKeeps(m, op) ==
  pageCallback(
    IF op.data = 0 \/ pageName(m, op.dir, op.page) \in DOMAIN m.views THEN m
    ELSE setEntry(m, displayType(m, op.dir), pageName(m, op.dir, op.page),
                  Entry("static", op.page.ext,
                        IF m.impl = "index" THEN op.page.name ELSE <<>>,
                        IF m.impl = "index" THEN op.dir ELSE <<>>,
                        FileText(op.path, op.data), "static")),
    op.cb,
    IF op.data = 0 THEN Err(<<"ENOENT">>) ELSE Null)

\* A readFile callback that caches the text of the first version of the file,
\* whatever it read.
readFileCallbackStale(m, op) ==
  pageCallback(
    IF op.data = 0 THEN m
    ELSE setEntry(m, displayType(m, op.dir), pageName(m, op.dir, op.page),
                  Entry("static", op.page.ext,
                        IF m.impl = "index" THEN op.page.name ELSE <<>>,
                        IF m.impl = "index" THEN op.dir ELSE <<>>,
                        FileText(op.path, 1), "static")),
    op.cb,
    IF op.data = 0 THEN Err(<<"ENOENT">>) ELSE Null)

\* The readFile callback of initPage's static branch (getStaticFile).
readFileCallback(m, op) ==
  pageCallback(
    IF op.data = 0 THEN m
    ELSE setEntry(m, displayType(m, op.dir), pageName(m, op.dir, op.page),
                  Entry("static", op.page.ext,
                        IF m.impl = "index" THEN op.page.name ELSE <<>>,
                        IF m.impl = "index" THEN op.dir ELSE <<>>,
                        FileText(op.path, op.data), "static")),
    op.cb,
    IF op.data = 0 THEN Err(<<"ENOENT">>) ELSE Null)

scan(m, sid, dir) == [m EXCEPT !.pending = @ \cup {ReadDir(sid, dir)}]

\* The branch of files.forEach an entry takes.
branch(m, type, page) ==
  IF type \in {"static", "all"} /\ InList(staticExt, DropDot(page.ext)) THEN "static"
  ELSE IF type \in {"dynamic", "all"} /\ InList(dynamicExt, DropDot(page.ext)) THEN "dynamic"
  ELSE IF m.impl = "index" /\ page.ext = <<>> /\ page.base # optPartials THEN "directory"
  ELSE "skip"

\* scan(newDir), after fileComplete(null) returned
scanAfter(m, sid, newDir) == IF m.threw THEN m ELSE scan(m, sid, newDir)

\* An iteration that scans a subdirectory without adding it to total.
classifyFixedTotal(m, sid, dir, page, b) ==
  IF b \in {"static", "dynamic"}
  THEN initPage(m, dir, page, FileCompleteCb(sid, dir), b = "static")
  ELSE IF b = "directory" /\ Exists(getDirectory(dir))
  THEN scanAfter(fileComplete(m, sid, dir, Null), sid, dir \o <<"/">> \o page.base)
  ELSE fileComplete(m, sid, dir, Null)

\* One iteration of files.forEach in the readdir callback.  The directory
\* branch tests fs.existsSync(newFullDir), and newFullDir is getDirectory(dir).
classify(m, sid, dir, page, b) ==
  IF b \in {"static", "dynamic"}
  THEN initPage(m, dir, page, FileCompleteCb(sid, dir), b = "static")
  ELSE IF b = "directory" /\ Exists(getDirectory(dir))
  THEN scanAfter(fileComplete([m EXCEPT !.scans[sid].total = @ + 1], sid, dir, Null),
                 sid, dir \o <<"/">> \o page.base)
  ELSE fileComplete(m, sid, dir, Null)

RECURSIVE forEachFile(_, _, _, _, _)
forEachFileNext(m, sid, dir, files, i) ==
  IF m.threw THEN m ELSE forEachFile(m, sid, dir, files, i + 1)

forEachFile(m, sid, dir, files, i) ==
  IF i > Len(files) THEN m
  ELSE forEachFileNext(classify(m, sid, dir, parse(files[i]),
                                branch(m, m.scans[sid].type, parse(files[i]))),
                       sid, dir, files, i)

\* A readdir callback that leaves an empty directory uncounted.
readdirListedStalls(m, sid, dir, files) ==
  IF Len(files) = 0 THEN m
  ELSE forEachFile(m, sid, dir, files, 1)

\* The readdir callback of scan(dir), files being what readdir lists.
readdirListed(m, sid, dir, files) ==
  IF Len(files) = 0 THEN checkCompletion(m, sid, dir)
  ELSE forEachFile(m, sid, dir, files, 1)

readdirCallback(m, sid, dir) ==
  IF ~Exists(getDirectory(dir))
  THEN scanCallback(m, sid, IF Exists(dir) THEN Err(<<"ENOTDIR">>) ELSE Err(<<"ENOENT">>))
  ELSE readdirListed([m EXCEPT !.listings = (<<sid, dir>> :>
                          [completedFiles |-> 0, totalFiles |-> Len(Listed(dir))]) @@ @],
                     sid, dir, Listed(dir))

\* An initAllPages that takes the instance out of ready while it scans.
initAllPagesUnready(m, type, cb) ==
  scan(scan([m EXCEPT !.ready = FALSE,
                      !.scans = Append(@, [type |-> type, cb |-> cb,
                                           completed |-> 0, total |-> 2,
                                           got |-> <<>>, failed |-> FALSE])],
            Len(m.scans) + 1, viewsDir),
       Len(m.scans) + 1, partialsDir)

\* initAllPages (type, cb): a new closure, and the two root scans started.
initAllPages(m, type, cb) ==
  scan(scan([m EXCEPT !.scans = Append(@, [type |-> type, cb |-> cb,
                                           completed |-> 0, total |-> 2,
                                           got |-> <<>>, failed |-> FALSE])],
            Len(m.scans) + 1, viewsDir),
       Len(m.scans) + 1, partialsDir)

ReloadMsg(page) ==
  <<"Could not reload the static ">> \o page \o <<" page, since it was never initialized.">>

\* A test that takes any cached view for a static one.
isStaticViewAny(m, page) == viewKey(m, page) \in DOMAIN m.views

\* The entry a name reloads: the view if it is static, else the partial if it
\* is static, else none.
isStaticView(m, page) ==
  /\ viewKey(m, page) \in DOMAIN m.views
  /\ InList(staticExt, DropDot(m.views[viewKey(m, page)].ext))
isStaticPartial(m, page) ==
  /\ partialKey(m, page) \in DOMAIN m.partials
  /\ InList(staticExt, DropDot(m.partials[partialKey(m, page)].ext))
reloadEntry(m, page) ==
  IF isStaticView(m, page) THEN m.views[viewKey(m, page)]
  ELSE m.partials[partialKey(m, page)]
reloadDir(m, page) ==
  IF m.impl = "index" THEN reloadEntry(m, page).dir
  ELSE IF isStaticView(m, page) THEN viewsDir ELSE partialsDir
reloadFile(m, page) ==
  IF m.impl = "index" THEN reloadEntry(m, page).page \o reloadEntry(m, page).ext
  ELSE page \o reloadEntry(m, page).ext

\* The record kept of a reloadStaticPage call: its arguments, what its callback
\* has received, and the version of the file its readFile found (Unread: none yet).
ReloadRecord(page, callback) ==
  [page |-> page, fn |-> callback, args |-> <<>>, read |-> Unread]

\* API.reloadStaticPage (page, callback), as call number r on machine m.  The
\* list form hands each element to reloadStaticPage through forEach, which
\* passes (element, index, array): the inner call's callback is the index.
RECURSIVE reloadCall(_, _, _)
RECURSIVE forEachReload(_, _, _)
forEachReloadNext(m, names, i) ==
  IF m.threw THEN m ELSE forEachReload(m, names, i + 1)

reloadStaticPage(m, page, callback) ==
  reloadCall([m EXCEPT !.callbacks = Append(@, ReloadRecord(page, callback))],
             page, Len(m.callbacks) + 1)

forEachReload(m, names, i) ==
  IF i > Len(names) THEN m
  ELSE forEachReloadNext(
         reloadCall([m EXCEPT !.callbacks = Append(@, ReloadRecord(Str(names[i]), Num(i - 1)))],
                    Str(names[i]), Len(m.callbacks) + 1),
         names, i)

reloadCall(m, page, r) ==
  IF page.t = "array" THEN forEachReload(m, page.v, 1)
  ELSE IF page.t = "string"
  THEN IF isStaticView(m, page.v) \/ isStaticPartial(m, page.v)
       THEN initPage(m, reloadDir(m, page.v), parse(reloadFile(m, page.v)), CompleteCb(r), TRUE)
       ELSE invokeCallback(m, r, Err(ReloadMsg(page.v)))
  ELSE initAllPages(m, "static", CompleteCb(r))

\* ------------------------------------------------------------------ inputs
\* The caller's data object of a serve call, as the command the home page runs.
Cmd(op, names, extra, spec, parts) ==
  [op |-> op, names |-> names, extra |-> extra, spec |-> spec, parts |-> parts]
TextCmd == Cmd("text", Undefined, NoFields, <<>>, <<>>)
ThrowCmd == Cmd("throw", Undefined, NoFields, <<>>, <<>>)
IncludeCmd(names, extra) == Cmd("include", names, extra, <<>>, <<>>)
LayoutCmd(spec, parts) == Cmd("layout", Undefined, NoFields, spec, parts)

IncludeNames ==
  { Str(Nav), Str(Missing), Str(Boom), Str(Msg),
    Arr(<<Nav, Missing>>), Arr(<<Missing, Nav>>), Arr(<<Nav, Msg>>), Arr(<<Boom, Nav>>) }
Bob == (<<"name">> :> Str(<<"Bob">>))
LayoutSpecs ==
  { Layout \o Colon \o Body, Layout, Layout \o Colon \o Side \o Colon \o Body,
    Layout \o Colon \o Body \o Colon \o Body, Layout \o Colon \o Include,
    Missing \o Colon \o Body, <<>>, Colon \o Body }
HtmlParts == { <<Hi>>, <<Hi, Aside>> }

Commands ==
  {TextCmd, ThrowCmd, IncludeCmd(Str(Msg), Bob), LayoutCmd(Layout \o Colon \o Body, <<>>)}
  \cup { IncludeCmd(n, NoFields) : n \in IncludeNames }
  \cup { LayoutCmd(sp, h) : sp \in LayoutSpecs, h \in HtmlParts }

WithCallback == Fn("callback", 1)

ServeInputs ==
  { [page |-> Home, cmd |-> c, cb |-> WithCallback] : c \in Commands }
  \cup { [page |-> pg, cmd |-> TextCmd, cb |-> f] :
           pg \in {Index, Missing, Layout}, f \in {WithCallback, Undefined} }

PlainInputs ==
  { [page |-> pg, cmd |-> TextCmd, cb |-> WithCallback] : pg \in {Index, Missing} }

ReloadArgs ==
  { Str(Index), Str(Nav), Str(Home), Str(Missing),
    Arr(<<Index, Nav>>), Arr(<<Missing, Index>>), Null }

Events == {"error"}
GlobalValues == 1..MaxGlobal

\* ----------------------------------------------------------------- actions
NoEntries == [k \in {} |-> Undefined]
NoCall == [op |-> "none", impl |-> "", page |-> Undefined, cmd |-> TextCmd, cb |-> Undefined,
           threw |-> FALSE, exc |-> Null, res |-> Undefined, calls |-> <<>>,
           heap |-> <<>>, emitted |-> <<>>, out |-> <<>>, started |-> {},
           queued |-> 0, before |-> <<NoEntries, NoEntries>>]

Blank(impl) ==
  [impl |-> impl, heap |-> <<>>, calls |-> <<>>, emitted |-> <<>>,
   threw |-> FALSE, exc |-> Null,
   ready |-> FALSE, error |-> Null, warning |-> Null,
   views |-> NoEntries, partials |-> NoEntries, pending |-> {}, scans |-> <<>>,
   listings |-> [k \in {} |-> 0], callbacks |-> <<>>, serves |-> <<>>, out |-> <<>>]

Commit(m) ==
  /\ _ready' = m.ready
  /\ _error' = m.error
  /\ _warning' = m.warning
  /\ views' = m.views
  /\ partials' = m.partials
  /\ pending' = m.pending
  /\ scans' = m.scans
  /\ listings' = m.listings
  /\ callbacks' = m.callbacks
  /\ serves' = m.serves

\* The outcome of an API call, as its caller sees it.
Outcome(op, impl, page, cmd, cb, r) ==
  [op |-> op, impl |-> impl, page |-> page, cmd |-> cmd, cb |-> cb,
   threw |-> r.m.threw, exc |-> r.m.exc, res |-> r.res, calls |-> r.m.calls,
   heap |-> r.m.heap, emitted |-> r.m.emitted, out |-> r.m.out,
   started |-> r.m.pending \ pending,
   queued |-> Len(r.m.serves) - Len(serves), before |-> <<views, partials>>]

\* new API(options): the Servelet constructor has run (machine m) and
\* initAllPages has started the two root scans.
Constructed(m, configured, worlds, subscribed) ==
     /\ _ready = m.ready
     /\ _error = m.error
     /\ _warning = m.warning
     /\ views = m.views
     /\ partials = m.partials
     /\ pending = m.pending
     /\ scans = m.scans
     /\ listings = m.listings
     /\ callbacks = m.callbacks
     /\ serves = m.serves
     /\ listeners \in subscribed
     /\ crashed = FALSE
     /\ delivered = <<>>
     /\ issued = 0
     /\ last = NoCall
     /\ globalData = configured
     /\ disk \in worlds

\* The installation of the README: index.html, nav.html and the dynamic pages.
PlainWorld ==
  [ StaticPaths \cup {getDirectory(viewsDir), getDirectory(partialsDir)} -> {1} ]

Construct(impl, configured) ==
  Constructed(initAllPages(Blank(impl), "all", InitCb), configured, PlainWorld, {{}})

\* options.globalData: the default '' or a configured object
GlobalConfigs == { Str(<<>>), [t |-> "object", v |-> <<>>, o |-> 0] }

Init == Construct("index", Str(<<>>))

\* The state a fs callback leaves behind, with the events it emitted; an
\* exception it throws is uncaught.
CommitCallback(m) ==
  /\ Commit(m)
  /\ crashed' = m.threw
  /\ delivered' = delivered \o m.out
  /\ last' = [NoCall EXCEPT !.op = "callback", !.emitted = m.emitted,
                            !.threw = m.threw, !.exc = m.exc]

\* The state an API call leaves behind and what its caller sees.
CommitCall(op, impl, page, cmd, cb, r) ==
  /\ Commit(r.m)
  /\ last' = Outcome(op, impl, page, cmd, cb, r)

\* The read of a reload is noted in the record of its call, the failed read
\* of a scan in the record of the scan.
Noted(m, op) ==
  IF op.cb.k = "complete" THEN [m EXCEPT !.callbacks[op.cb.call].read = op.data]
  ELSE IF op.data = 0 THEN [m EXCEPT !.scans[op.sid].failed = TRUE]
  ELSE m

\* The listing of dir fails, or lists a module whose require throws.
ListingFails(m, sid, dir) ==
  \/ ~Exists(getDirectory(dir))
  \/ \E i \in 1..Len(Listed(dir)) :
       /\ branch(m, m.scans[sid].type, parse(Listed(dir)[i])) = "dynamic"
       /\ ModuleOf(getDirectory(dir) \o Listed(dir)[i]) = "missing"

\* The failure of a listing is noted in the record of its scan.
NotedListing(m, op) ==
  IF ListingFails(m, op.sid, op.dir) THEN [m EXCEPT !.scans[op.sid].failed = TRUE] ELSE m

\* A fs.readdir callback runs.
ReaddirDone(impl) ==
  /\ ~crashed
  /\ \E op \in pending :
       /\ op.op = "readdir"
       /\ \E m \in { readdirCallback(
                        NotedListing([Cur(impl) EXCEPT !.pending = @ \ {op}], op),
                        op.sid, op.dir) } :
            CommitCallback(m)
  /\ UNCHANGED << listeners, globalData, disk, issued >>

\* fs.readFile reads the file, at some moment between the call and its callback.
FsRead ==
  /\ ~crashed
  /\ \E op \in pending :
       /\ op.op = "readFile"
       /\ op.data = Unread
       /\ pending' = (pending \ {op}) \cup {[op EXCEPT !.data = disk[op.path]]}
  /\ last' = NoCall
  /\ UNCHANGED << _ready, _error, _warning, listeners, views, partials, globalData, disk,
                  scans, listings, callbacks, crashed, serves, delivered, issued >>

\* A fs.readFile callback runs.
ReadFileDone(impl) ==
  /\ ~crashed
  /\ \E op \in pending :
       /\ op.op = "readFile"
       /\ op.data # Unread
       /\ \E m \in { readFileCallback(
                        Noted([Cur(impl) EXCEPT !.pending = @ \ {op}], op), op) } :
            CommitCallback(m)
  /\ UNCHANGED << listeners, globalData, disk, issued >>

\* servelet.serve(page, data, callback) of src/index.js, for a page, data and
\* callback among inputs
ServeOf(inputs) ==
  /\ ~crashed
  /\ \E in \in inputs :
       CommitCall("serve", "index", Str(in.page), in.cmd, in.cb,
                  serve(Cur("index"), in.page, in.cmd, in.cb))
  /\ UNCHANGED << listeners, globalData, disk, crashed, delivered, issued >>

\* A request for a plain page, while scans and reloads go on.
Serve == ServeOf(PlainInputs)

\* A request for any page with any data, with or without a callback.
Render == ServeOf(ServeInputs)

UserCalls(cbs) == Cardinality({ i \in 1..Len(cbs) : cbs[i].fn.t = "function" })

\* servelet.reloadStaticPage(page, callback)
Reload(impl) ==
  /\ ~crashed
  /\ UserCalls(callbacks) < MaxReloads
  /\ \E page \in ReloadArgs :
       CommitCall("reload", impl, page, TextCmd, Fn("callback", Len(callbacks) + 1),
                  Ret(reloadStaticPage(Cur(impl), page, Fn("callback", Len(callbacks) + 1)),
                      This))
  /\ UNCHANGED << listeners, globalData, disk, crashed, delivered, issued >>

\* servelet.updateGlobalData({k: v}): Object.assign(options.globalData, data)
\* writes to the object; on a primitive (the default '') it writes to a
\* temporary wrapper and options.globalData is unchanged.
UpdateGlobalData ==
  /\ ~crashed
  /\ \E v \in GlobalValues :
       /\ globalData' = IF globalData.t = "object" THEN [globalData EXCEPT !.o = v]
                        ELSE globalData
       /\ last' = [NoCall EXCEPT !.op = "updateGlobalData", !.res = Num(v)]
  /\ UNCHANGED << _ready, _error, _warning, listeners, views, partials, disk, pending,
                  scans, listings, callbacks, crashed, serves, delivered, issued >>

\* servelet.on(event, handler) / servelet.off(event, handler)
On ==
  /\ ~crashed
  /\ \E ev \in Events \ listeners : listeners' = listeners \cup {ev}
  /\ last' = NoCall
  /\ UNCHANGED << _ready, _error, _warning, views, partials, globalData, disk, pending,
                  scans, listings, callbacks, crashed, serves, delivered, issued >>

Off ==
  /\ ~crashed
  /\ \E ev \in listeners : listeners' = listeners \ {ev}
  /\ last' = NoCall
  /\ UNCHANGED << _ready, _error, _warning, views, partials, globalData, disk, pending,
                  scans, listings, callbacks, crashed, serves, delivered, issued >>

\* The environment rewrites or removes a static file.
EditFile ==
  /\ ~crashed
  /\ \E path \in EditablePaths, v \in 0..MaxVersion :
       /\ v # disk[path]
       /\ disk' = [disk EXCEPT ![path] = v]
  /\ last' = NoCall
  /\ UNCHANGED << _ready, _error, _warning, listeners, views, partials, globalData, pending,
                  scans, listings, callbacks, crashed, serves, delivered, issued >>

Next ==
  \/ ReaddirDone("index")
  \/ FsRead
  \/ ReadFileDone("index")
  \/ Serve
  \/ Reload("index")
  \/ UpdateGlobalData
  \/ On
  \/ Off
  \/ EditFile

Spec == Init /\ [][Next]_vars

\* The render engine on its own: every page, data and callback shape, in
\* every state of the initial scan.
NextRender ==
  \/ ReaddirDone("index")
  \/ FsRead
  \/ ReadFileDone("index")
  \/ Render
  \/ On
  \/ Off

InitRender == Construct("index", Str(<<>>))

SpecRender == InitRender /\ [][NextRender]_vars

\* ------------------------------------------------ part_000: queued serves
QueueInputs ==
  { [page |-> pg, cmd |-> TextCmd] : pg \in {Index, Home, Missing} }

CommitServeQ(in, cb, r) ==
  /\ CommitCall("serve", "part_000", Str(in.page), in.cmd, cb, r)
  /\ delivered' = delivered \o r.m.out

\* servelet.serve(page, data, callback) of src/unnamed/part_000; the n-th call
\* passes the callback numbered n.
ServeQ ==
  /\ ~crashed
  /\ issued < MaxServes
  /\ \E in \in QueueInputs :
       CommitServeQ(in, Fn("callback", issued + 1),
                    serve(Cur("part_000"), in.page, in.cmd, Fn("callback", issued + 1)))
  /\ issued' = issued + 1
  /\ UNCHANGED << listeners, globalData, disk, crashed >>

InitQ == Construct("part_000", Str(<<>>))

NextQ ==
  \/ ReaddirDone("part_000")
  \/ FsRead
  \/ ReadFileDone("part_000")
  \/ ServeQ
  \/ On
  \/ Off

SpecQ == InitQ /\ [][NextQ]_vars

\* ------------------------------------------- the scan, on every installation
\* Which of the optional files and directories exist when the instance is built.
ScanPaths ==
  { getDirectory(viewsDir), getDirectory(partialsDir), getDirectory(subDir),
    getDirectory(viewsDir) \o IndexHtml, getDirectory(viewsDir) \o BadJs,
    getDirectory(viewsDir) \o SubXHtml, getDirectory(partialsDir) \o NavHtml,
    getDirectory(subDir) \o XHtml, getDirectory(subDir) \o NotesTxt }
\* A file or directory exists only inside a directory that exists.
Nested(w) ==
  \A path \in DOMAIN w, dir \in {viewsDir, partialsDir, subDir} :
    (path # getDirectory(dir) /\ getDirectory(dir) \in DOMAIN w
       /\ Len(path) > Len(dir) /\ SubSeq(path, 1, Len(dir) + 1) = getDirectory(dir))
      => w[path] <= w[getDirectory(dir)]
ScanWorlds == { w \in [ ScanPaths -> {0, 1} ] : Nested(w) }

\* The handlers the application subscribes right after construction.
Subscriptions == SUBSET {"error", "ready"}

RemovablePaths == { getDirectory(viewsDir) \o IndexHtml, getDirectory(subDir) \o XHtml }

\* The environment removes a static file.
RemoveFile ==
  /\ ~crashed
  /\ \E path \in RemovablePaths :
       /\ disk[path] # 0
       /\ disk' = [disk EXCEPT ![path] = 0]
  /\ last' = NoCall
  /\ UNCHANGED << _ready, _error, _warning, listeners, views, partials, globalData, pending,
                  scans, listings, callbacks, crashed, serves, delivered, issued >>

InitScan ==
  Constructed(initAllPages(Blank("index"), "all", InitCb), Str(<<>>), ScanWorlds,
              Subscriptions)

NextScan ==
  \/ ReaddirDone("index")
  \/ FsRead
  \/ ReadFileDone("index")
  \/ RemoveFile

SpecScan == InitScan /\ [][NextScan]_vars

\* The installations in which no listing, read or module load can fail: both
\* roots exist, bad.js does not, and no file is removed.  The partials root has
\* its three files or none; views/sub may be missing, empty, or hold only
\* notes.txt.
LivePaths ==
  (ScanPaths \ {getDirectory(viewsDir) \o BadJs})
  \cup { getDirectory(partialsDir) \o MsgJs, getDirectory(partialsDir) \o BoomJs }
LiveWorlds ==
  { w \in [ LivePaths -> {0, 1} ] :
      /\ w[getDirectory(viewsDir)] = 1
      /\ w[getDirectory(partialsDir)] = 1
      /\ w[getDirectory(partialsDir) \o MsgJs] = w[getDirectory(partialsDir) \o NavHtml]
      /\ w[getDirectory(partialsDir) \o BoomJs] = w[getDirectory(partialsDir) \o NavHtml]
      /\ Nested(w) }

InitLive ==
  Constructed(initAllPages(Blank("index"), "all", InitCb), Str(<<>>), LiveWorlds, {{}})

NextLive ==
  \/ ReaddirDone("index")
  \/ FsRead
  \/ ReadFileDone("index")

\* The guards of the three fs steps: a listing waits for its callback, a file
\* waits to be read, a read file waits for its callback.
ListingDue == ~crashed /\ \E op \in pending : op.op = "readdir"
ReadDue == ~crashed /\ \E op \in pending : op.op = "readFile" /\ op.data = Unread
FileDue == ~crashed /\ \E op \in pending : op.op = "readFile" /\ op.data # Unread

\* Node completes every fs call it was handed: each readdir and readFile in
\* flight reads and then runs its callback.  This is weak fairness of the three
\* steps, WF_vars(A) == []<>~ENABLED <<A>>_vars \/ []<><<A>>_vars, with the guard
\* of each step written for ENABLED <<A>>_vars (each step takes its call out of
\* pending, so it changes vars whenever its guard holds).
SpecLive ==
  /\ InitLive
  /\ [][NextLive]_vars
  /\ ([]<>~ListingDue \/ []<><<ReaddirDone("index")>>_vars)
  /\ ([]<>~ReadDue \/ []<><<FsRead>>_vars)
  /\ ([]<>~FileDue \/ []<><<ReadFileDone("index")>>_vars)

\* -------------------------------------------- global data, every configuration
HomeInputs == { [page |-> Home, cmd |-> TextCmd, cb |-> WithCallback] }

\* A request for the home page, which reads data.global.
ServeHome == ServeOf(HomeInputs)

InitGlobal == \E configured \in GlobalConfigs : Construct("index", configured)

NextGlobal ==
  \/ ReaddirDone("index")
  \/ FsRead
  \/ ReadFileDone("index")
  \/ UpdateGlobalData
  \/ ServeHome

SpecGlobal == InitGlobal /\ [][NextGlobal]_vars

\* --------------------------------------- pages of every installation, served
\* Installations in which the scan cannot fail: both roots and the fixed
\* dynamic pages exist, and index.html, subx.html, data.js, the subdirectory
\* sub and sub/x.html each exist or not.  No file is edited or removed.
DataPage == <<"data">>
SubX == <<"sub", "x">>
SubSlashX == <<"sub", "/", "x">>

PagePaths ==
  { getDirectory(viewsDir), getDirectory(partialsDir), getDirectory(subDir),
    getDirectory(viewsDir) \o IndexHtml, getDirectory(viewsDir) \o SubXHtml,
    getDirectory(viewsDir) \o DataJs, getDirectory(subDir) \o XHtml }
PageWorlds ==
  { w \in [ PagePaths -> {0, 1} ] :
      w[getDirectory(viewsDir)] = 1 /\ w[getDirectory(partialsDir)] = 1 /\ Nested(w) }

\* serve(page, data, callback) for the static pages and the data page, with
\* two different data objects.
PageInputs ==
  { [page |-> pg, cmd |-> c, cb |-> WithCallback] :
      pg \in {Index, SubX, SubSlashX, DataPage}, c \in {TextCmd, ThrowCmd} }

ServePage == ServeOf(PageInputs)

InitPages ==
  Constructed(initAllPages(Blank("index"), "all", InitCb), Str(<<>>), PageWorlds, {{}})

NextPages ==
  \/ ReaddirDone("index")
  \/ FsRead
  \/ ReadFileDone("index")
  \/ ServePage

SpecPages == InitPages /\ [][NextPages]_vars

\* ------------------------------------------- the scan of a tree of pages
\* Installations with both roots, where LICENSE, home.html, subx.html, the
\* subdirectory sub and sub/x.html each exist or not; an 'error' handler is
\* subscribed and nothing changes on disk.
TreePaths ==
  { getDirectory(viewsDir), getDirectory(partialsDir), getDirectory(subDir),
    getDirectory(viewsDir) \o License, getDirectory(viewsDir) \o HomeHtml,
    getDirectory(viewsDir) \o SubXHtml, getDirectory(subDir) \o XHtml }
TreeWorlds ==
  { w \in [ TreePaths -> {0, 1} ] :
      w[getDirectory(viewsDir)] = 1 /\ w[getDirectory(partialsDir)] = 1 /\ Nested(w) }

InitTree ==
  Constructed(initAllPages(Blank("index"), "all", InitCb), Str(<<>>), TreeWorlds,
              {{"error"}})

NextTree ==
  \/ ReaddirDone("index")
  \/ FsRead
  \/ ReadFileDone("index")

SpecTree == InitTree /\ [][NextTree]_vars

\* ------------------------------------------------ entries under reloads
\* Installations with index.html and nav.html where data.js and bad.js each
\* exist or not and home.html does not yet; an 'error' handler is subscribed.
\* The application reloads static pages while the environment rewrites or
\* removes index.html and adds home.html.
KeepPaths ==
  StaticPaths \cup
  { getDirectory(viewsDir), getDirectory(partialsDir), getDirectory(viewsDir) \o DataJs,
    getDirectory(viewsDir) \o BadJs, getDirectory(viewsDir) \o HomeHtml }
KeepWorlds ==
  { w \in [ KeepPaths -> {0, 1} ] :
      /\ \A path \in StaticPaths \cup {getDirectory(viewsDir), getDirectory(partialsDir)} :
           w[path] = 1
      /\ w[getDirectory(viewsDir) \o HomeHtml] = 0 }

AddablePaths == { getDirectory(viewsDir) \o HomeHtml }

\* The environment adds a static file.
AddFile ==
  /\ ~crashed
  /\ \E path \in AddablePaths :
       /\ disk[path] = 0
       /\ disk' = [disk EXCEPT ![path] = 1]
  /\ last' = NoCall
  /\ UNCHANGED << _ready, _error, _warning, listeners, views, partials, globalData, pending,
                  scans, listings, callbacks, crashed, serves, delivered, issued >>

InitKeep ==
  Constructed(initAllPages(Blank("index"), "all", InitCb), Str(<<>>), KeepWorlds,
              {{"error"}})

NextKeep ==
  \/ ReaddirDone("index")
  \/ FsRead
  \/ ReadFileDone("index")
  \/ Reload("index")
  \/ EditFile
  \/ AddFile

SpecKeep == InitKeep /\ [][NextKeep]_vars

\* ------------------------------------------- reloads of one page, overlapping
\* servelet.reloadStaticPage('index', callback), up to MaxOverlap times, each
\* with its own callback, while index.html is rewritten.
ReloadIndex ==
  /\ ~crashed
  /\ UserCalls(callbacks) < MaxOverlap
  /\ CommitCall("reload", "index", Str(Index), TextCmd, Fn("callback", Len(callbacks) + 1),
                Ret(reloadStaticPage(Cur("index"), Str(Index),
                                     Fn("callback", Len(callbacks) + 1)),
                    This))
  /\ UNCHANGED << listeners, globalData, disk, crashed, delivered, issued >>

InitOverlap == Construct("index", Str(<<>>))

NextOverlap ==
  \/ ReaddirDone("index")
  \/ FsRead
  \/ ReadFileDone("index")
  \/ ReloadIndex
  \/ EditFile

SpecOverlap == InitOverlap /\ [][NextOverlap]_vars

\* ------------------------------------------------------------- properties
\* What the latest API call found in the cache when it started.
Before == [impl |-> last.impl, views |-> last.before[1], partials |-> last.before[2]]

\* The entry under key is a Static entry with a static extension.
StaticIn(ns, key) ==
  key \in DOMAIN ns /\ ns[key].type = "static" /\ InList(staticExt, DropDot(ns[key].ext))

\* The latest step was serve(page, data, callback) with a callback.
ServedWithCallback == last.op = "serve" /\ last.cb.t = "function"

\* The latest step was serve('home', data, callback) with home cached, data
\* telling the home page what to do.
HomeServed(op) ==
  /\ ServedWithCallback
  /\ last.page = Str(Home)
  /\ viewKey(Before, Home) \in DOMAIN Before.views
  /\ last.cmd.op = op

\* The value res contains text.
ResultHas(res, text) ==
  \/ res.t = "string" /\ Contains(res.v, text)
  \/ res.t = "array" /\ \E i \in 1..Len(res.v) : Contains(res.v[i], text)

\* C1: in part_000, once ready is true every serve call that was queued while
\* ready was false has had its callback invoked exactly once with a rendered
\* string, in arrival order (callbacks are numbered in arrival order).
QueuedIds == { serves[i].cb.o : i \in 1..Len(serves) }
C1_QueuedReplayed ==
  _ready =>
    LET got == SelectSeq(delivered, LAMBDA d : d.cb \in QueuedIds)
    IN /\ Len(got) = Cardinality(QueuedIds)
       /\ \A i \in 1..(Len(got) - 1) : got[i].cb < got[i+1].cb
       /\ \A i \in 1..Len(got) : got[i].arg.t = "string"

\* C2: ready starts false, and no step of serve, updateGlobalData,
\* reloadStaticPage or of their file-system callbacks takes it from true to false.
C2_ReadyMonotonic == (~_ready) /\ [][_ready => _ready']_vars

\* ready is true and a reload has reported to its callback
C2_ReadyAfterReload ==
  _ready /\ \E r \in 1..Len(callbacks) : callbacks[r].args # <<>>

\* C3: serving a page that is absent from views hands the callback a string
\* containing the page name, leaves the error signal non-null and does not
\* throw, with or without an error handler.
C3_MissingPageRendered ==
  (ServedWithCallback /\ viewKey(Before, last.page.v) \notin DOMAIN Before.views)
  => /\ ~last.threw
     /\ Len(last.out) = 1
     /\ last.out[1].arg.t = "string"
     /\ Contains(last.out[1].arg.v, last.page.v)
     /\ _error # Null

\* C4: when the home page's producer throws, serve hands the callback the
\* sentinel string naming the page, the error signal is set and nothing is
\* thrown to the caller, with or without an error handler.
C4_ProducerFailureCaught ==
  HomeServed("throw")
  => /\ ~last.threw
     /\ last.out = << [cb |-> last.cb.o, arg |-> Str(ErrorMsg(Home))] >>
     /\ _error # Null

\* C5: include with a list of names returns a result containing the content of
\* every listed partial that exists; every listed partial that exists is
\* rendered even when another is missing, and a missing one sets the error
\* signal.  Stated for calls made with an error handler subscribed, where
\* setting the error signal does not throw.
PartialText(e) ==
  IF e.prog = "static" THEN e.content ELSE IF e.prog = "msg" THEN <<"msg:">> ELSE <<>>
C5_IncludeList ==
  (HomeServed("include") /\ last.cmd.names.t = "array" /\ "error" \in listeners)
  => /\ ~last.threw
     /\ Len(last.out) = 1
     /\ \A i \in 1..Len(last.cmd.names.v) :
          LET key == partialKey(Before, last.cmd.names.v[i])
          IN IF key \in DOMAIN Before.partials
             THEN /\ \E n \in 1..Len(last.calls) :
                        last.calls[n].ns = "partials" /\ last.calls[n].key = key
                  /\ ResultHas(last.out[1].arg, PartialText(Before.partials[key]))
             ELSE _error # Null

\* The layout call the home page made: its spec split at the colons, the part
\* bound to position i, and the context (the data object of the home page).
LayoutPages == Split(last.cmd.spec, ":")
LayoutPart(i) == IF i <= Len(last.cmd.parts) THEN Str(last.cmd.parts[i]) ELSE Str(<<>>)
LayoutCtx == last.calls[1].obj
LayoutFields == { LayoutPages[i] : i \in 2..Len(LayoutPages) }
NamedLayout == HomeServed("layout") /\ LayoutPages[1] # <<>>
LayoutCached == viewKey(Before, LayoutPages[1]) \in DOMAIN Before.views

\* What layout leaves when the named page is not cached: the not-found string
\* with an error handler subscribed, the exception without one.
LayoutAbsent ==
  /\ Len(last.calls) = 1
  /\ IF "error" \in listeners
     THEN last.out = << [cb |-> last.cb.o, arg |-> Str(NotFoundMsg(LayoutPages[1]))] >>
     ELSE last.threw

\* The layout page was invoked on the context itself and its output is what
\* the caller received.
LayoutDirect ==
  /\ Len(last.calls) = 2
  /\ last.calls[2].ns = "views"
  /\ last.calls[2].key = viewKey(Before, LayoutPages[1])
  /\ last.calls[2].obj = LayoutCtx
  /\ last.calls[2].fields = last.heap[LayoutCtx].fields
  /\ ~last.threw
  /\ Len(last.out) = 1
  /\ (LayoutPages[1] = Layout =>
        last.out[1].arg = Str(<<"<L>">> \o FieldText(last.heap[LayoutCtx], Body) \o <<"</L>">>))

\* C6 (as stated): every field f_i is bound to htmlParts[i-1] or '', the layout
\* page is rendered on the context itself, and include and layout of that
\* context are still its capabilities.
C6_LayoutBindsEach ==
  NamedLayout
  => /\ \A i \in 2..Len(LayoutPages) :
          last.heap[LayoutCtx].fields[LayoutPages[i]] = LayoutPart(i - 1)
     /\ last.heap[LayoutCtx].fields[Include] = Fn("include", LayoutCtx)
     /\ last.heap[LayoutCtx].fields[Layout] = Fn("layout", LayoutCtx)
     /\ IF LayoutCached THEN LayoutDirect ELSE LayoutAbsent

\* C6 (amended): each field name is bound to the part at the position of its
\* last occurrence in the spec (or '' when that part is absent); the layout
\* page is rendered on the context itself, no new context being built; include
\* and layout of that context stay its capabilities unless a field of the
\* spec bears their name.
C6_LayoutBindsLast ==
  NamedLayout
  => /\ \A i \in 2..Len(LayoutPages) :
          (\A j \in (i+1)..Len(LayoutPages) : LayoutPages[j] # LayoutPages[i])
          => last.heap[LayoutCtx].fields[LayoutPages[i]] = LayoutPart(i - 1)
     /\ Include \notin LayoutFields
          => last.heap[LayoutCtx].fields[Include] = Fn("include", LayoutCtx)
     /\ Layout \notin LayoutFields
          => last.heap[LayoutCtx].fields[Layout] = Fn("layout", LayoutCtx)
     /\ IF LayoutCached THEN LayoutDirect ELSE LayoutAbsent

\* layout('layout:side:body', '<p>hi</p>', '<i>x</i>') rendered the layout page
\* on the context of the home page
C6_LayoutRendered ==
  /\ NamedLayout
  /\ last.cmd.spec = Layout \o Colon \o Side \o Colon \o Body
  /\ last.cmd.parts = <<Hi, Aside>>
  /\ Len(last.calls) = 2
  /\ last.out = << [cb |-> last.cb.o, arg |-> Str(<<"<L>", "<i>x</i>", "</L>">>)] >>

\* C7: a layout spec whose first segment is empty ('' or ':body') makes layout
\* return htmlParts unchanged, render no page, bind nothing and signal no error.
\* Stated for calls made with an error handler subscribed, where setting the
\* error signal does not throw.
C7_EmptyNameNoOp ==
  (HomeServed("layout") /\ LayoutPages[1] = <<>> /\ "error" \in listeners)
  => /\ ~last.threw
     /\ last.emitted = <<>>
     /\ Len(last.calls) = 1
     /\ last.heap[LayoutCtx].fields = last.calls[1].fields
     /\ last.out = << [cb |-> last.cb.o, arg |-> Arr(last.cmd.parts)] >>

\* The entry a name reloads, and the file behind it.
TargetEntry(page) ==
  IF StaticIn(views, getPages(page)[1]) THEN views[getPages(page)[1]]
  ELSE partials[getPages(page)[2]]
TargetPath(page) ==
  getDirectory(TargetEntry(page).dir) \o TargetEntry(page).page \o TargetEntry(page).ext

\* Call r is the only reload that touches its page.
OnlyReload(r) ==
  \A q \in 1..Len(callbacks) :
    q # r => callbacks[q].page # callbacks[r].page /\ callbacks[q].page.t # "null"

\* C8: once the scan has succeeded, a reloadStaticPage(name, cb) whose read has
\* found the file (version read) has invoked cb exactly once, with null; the
\* cache holds the text it read, and a serve of that page made after that hands
\* out that text.  Before its read is done cb has not been invoked.
C8_ReloadRefreshes ==
  \A r \in 1..Len(callbacks) :
    (_ready /\ callbacks[r].fn.t = "function" /\ callbacks[r].page.t = "string"
       /\ OnlyReload(r))
    => /\ Len(callbacks[r].args) <= 1
       /\ callbacks[r].read > 0 =>
            /\ callbacks[r].args = <<Null>>
            /\ TargetEntry(callbacks[r].page.v).content
                 = FileText(TargetPath(callbacks[r].page.v), callbacks[r].read)
            /\ (ServedWithCallback /\ last.page = callbacks[r].page) =>
                 last.out = << [cb |-> last.cb.o,
                                arg |-> Str(FileText(TargetPath(last.page.v),
                                                     callbacks[r].read))] >>

\* index.html was rewritten, reloaded, and then served with its new text
C8_ServedAfterReload ==
  /\ _ready
  /\ Len(callbacks) = 1
  /\ callbacks[1].page = Str(Index)
  /\ callbacks[1].read = 2
  /\ callbacks[1].args = <<Null>>
  /\ ServedWithCallback
  /\ last.page = Str(Index)
  /\ last.out[1].arg = Str(FileText(getDirectory(viewsDir) \o IndexHtml, 2))

\* C9: reloadStaticPage(name, cb) for a name with no Static entry in views or
\* partials invokes cb exactly once, with an error, starts no readFile or
\* readdir, and leaves views and partials as they were.
NoStaticEntry(page) ==
  /\ ~StaticIn(Before.views, getPages(page)[1])
  /\ ~StaticIn(Before.partials, getPages(page)[2])
C9_UnknownReload ==
  (last.op = "reload" /\ last.page.t = "string" /\ NoStaticEntry(last.page.v))
  => /\ ~last.threw
     /\ Len(callbacks[last.cb.o].args) = 1
     /\ callbacks[last.cb.o].args[1].t = "Error"
     /\ last.started = {}
     /\ views = Before.views
     /\ partials = Before.partials

\* reloadStaticPage('home', cb) with home cached as a dynamic page
C9_DynamicOnlyReload ==
  /\ last.op = "reload"
  /\ last.page = Str(Home)
  /\ getPages(Home)[1] \in DOMAIN Before.views
  /\ Before.views[getPages(Home)[1]].type = "dynamic"
  /\ callbacks[last.cb.o].args # <<>>

\* C10: a reloadStaticPage(names, cb) with a list of names has invoked cb
\* once no reload of a listed name is still reading, and the process is alive.
C10_ListReloadReports ==
  \A r \in 1..Len(callbacks) :
    (/\ callbacks[r].fn.t = "function"
     /\ callbacks[r].page.t = "array"
     /\ ~\E op \in pending :
           /\ op.op = "readFile"
           /\ op.cb.k = "complete"
           /\ op.cb.call \in (r+1)..(r + Len(callbacks[r].page.v)))
    => /\ ~crashed
       /\ Len(callbacks[r].args) = 1

\* data.global.k as a page reads it: the value stored under k in an object,
\* undefined (0) on anything else.
GlobalK(g) == IF g.t = "object" THEN g.o ELSE 0

\* C11: after updateGlobalData({k: v}) options.globalData.k is v, and every
\* render hands its page options.globalData as data.global, whether globalData
\* was configured as an object or left at its default.
C11_GlobalVisible ==
  /\ last.op = "updateGlobalData" => GlobalK(globalData) = last.res.o
  /\ HomeServed("text") => last.calls[1].fields[Global] = globalData

\* What scan sid has reported to its callback.
Succeeded(sid) == \E i \in 1..Len(scans[sid].got) : scans[sid].got[i] = Null
ReportedError(sid) == \E i \in 1..Len(scans[sid].got) : scans[sid].got[i] # Null
InFlight(sid) == { op \in pending : op.sid = sid }
Emitted(ev) == \E i \in 1..Len(last.emitted) : last.emitted[i][1] = ev

\* C15: the completion callback of every initAllPages run is invoked at most
\* once, and exactly once when nothing of the run is in flight any more: with
\* an error if a listing, read or module load failed, with null otherwise.
C15_CallbackOnce ==
  \A sid \in 1..Len(scans) :
    /\ Len(scans[sid].got) <= 1
    /\ InFlight(sid) = {} =>
         /\ Len(scans[sid].got) = 1
         /\ scans[sid].failed <=> ReportedError(sid)

\* C16: once a directory listing, a static file read or a module load of the
\* initial scan has failed, ready is not true and no ready event is emitted.
C16_FailureNotReady ==
  scans[1].failed => ~_ready /\ ~Emitted("ready")

\* everything of the scan is done, one read of it failed, the rest succeeded
C16_FailedAndDone ==
  /\ scans[1].failed
  /\ InFlight(1) = {}
  /\ ~crashed
  /\ Len(scans[1].got) = 1
  /\ <<1, subDir>> \in DOMAIN listings
  /\ <<1, partialsDir>> \in DOMAIN listings
  /\ listings[<<1, partialsDir>>].completedFiles = listings[<<1, partialsDir>>].totalFiles

\* C18: when a scan has signalled success nothing of it is in flight, both
\* roots and the subdirectory found in views have been listed, and every file
\* of every listing has completed.
C18_SuccessWhenAllDone ==
  \A sid \in 1..Len(scans) :
    Succeeded(sid) =>
      /\ InFlight(sid) = {}
      /\ <<sid, viewsDir>> \in DOMAIN listings
      /\ <<sid, partialsDir>> \in DOMAIN listings
      /\ Exists(getDirectory(subDir)) => <<sid, subDir>> \in DOMAIN listings
      /\ \A k \in DOMAIN listings :
           k[1] = sid => listings[k].completedFiles = listings[k].totalFiles

\* success after the subdirectory was found, with a static file in it
C18_SuccessWithSubdirectory ==
  /\ Succeeded(1)
  /\ scans[1].total = 3
  /\ <<1, subDir>> \in DOMAIN listings
  /\ listings[<<1, subDir>>].totalFiles = 2
  /\ getPages(Sub \o <<"/", "x">>)[1] \in DOMAIN views

\* C19: a scan none of whose listings, reads and module loads fails ends with
\* ready true; an empty directory, or one with only skipped entries, does not
\* stall it.
C19_ScanCompletes == <>_ready

\* ready, with the partials root empty and only notes.txt in views/sub
C19_ReadyWithEmptyDirectory ==
  /\ _ready
  /\ listings[<<1, partialsDir>>].totalFiles = 0
  /\ <<1, subDir>> \in DOMAIN listings
  /\ listings[<<1, subDir>>].totalFiles = 1
  /\ getPages(Sub \o <<"/", "x">>)[1] \notin DOMAIN views

\* The file a page name of the views root names.
PageFile(page) ==
  IF page = Index THEN getDirectory(viewsDir) \o IndexHtml
  ELSE IF page = SubX THEN getDirectory(viewsDir) \o SubXHtml
  ELSE getDirectory(subDir) \o XHtml

\* The latest step served page to a callback, which received arg.
Rendered(page, arg) ==
  /\ ServedWithCallback
  /\ last.page = Str(page)
  /\ last.out = << [cb |-> last.cb.o, arg |-> arg] >>

\* C12: after a successful scan, serving the page name of a static file that
\* is present under the views root hands the callback exactly that file's
\* text, whatever the data and whatever other files are present.
C12_StaticRendersFile ==
  \A pg \in {Index, SubX, SubSlashX} :
    (_ready /\ ServedWithCallback /\ last.page = Str(pg) /\ Exists(PageFile(pg)))
      => Rendered(pg, Str(FileText(PageFile(pg), 1)))

\* C17: once the scan has loaded data.js, which exports no function, a warning
\* is set and no error, the scan goes on to success, and serving the page hands
\* the callback the empty string.
C17_PlaceholderRendersEmpty ==
  /\ (viewKey(Cur("index"), DataPage) \in DOMAIN views)
       => /\ _warning = Str(WarnMsg(viewKey(Cur("index"), DataPage)))
          /\ _error = Null
          /\ ~scans[1].failed
  /\ (ServedWithCallback /\ last.page = Str(DataPage)
        /\ viewKey(Before, DataPage) \in DOMAIN Before.views)
       => Rendered(DataPage, Str(<<>>))

\* C17, the part that holds: the warning, no error, and a placeholder entry
\* whose render hands the callback undefined.
C17_WarningAndPlaceholder ==
  /\ (viewKey(Cur("index"), DataPage) \in DOMAIN views)
       => /\ _warning = Str(WarnMsg(viewKey(Cur("index"), DataPage)))
          /\ _error = Null
          /\ ~scans[1].failed
  /\ (ServedWithCallback /\ last.page = Str(DataPage)
        /\ viewKey(Before, DataPage) \in DOMAIN Before.views)
       => Rendered(DataPage, Undefined)

\* The calls of the latest step to the function of views[key].
CallsOf(key) ==
  { i \in 1..Len(last.calls) : last.calls[i].ns = "views" /\ last.calls[i].key = key }

C14_QueuedWhileNotReady ==
  [][(issued' = issued + 1 /\ ~_ready) =>
       /\ serves' = Append(serves, [page |-> last'.page.v, cmd |-> last'.cmd, cb |-> last'.cb])
       /\ last'.res = This
       /\ last'.calls = <<>>
       /\ last'.out = <<>>
       /\ delivered' = delivered
       /\ ~last'.threw
       /\ last'.emitted = <<>>
       /\ _error' = _error
       /\ views' = views /\ partials' = partials
       /\ ~_ready']_vars

\* the second of two serve calls made before ready has just been queued
C14_TwoQueued ==
  /\ last.op = "serve"
  /\ ~_ready
  /\ issued = 2
  /\ Len(serves) = 2
  /\ delivered = <<>>

\* C20: when the readFile of a targeted reload with a callback finds no file,
\* its callback step leaves views and partials as they were, hands the error
\* to the reload's callback and to nothing else, and leaves the error signal
\* as it was.
C20_FailedReloadKeepsEntry ==
  [][\A r \in 1..Len(callbacks) :
       (callbacks[r].fn.t = "function" /\ callbacks[r].read = Unread
          /\ callbacks'[r].read = 0) =>
         /\ views' = views
         /\ partials' = partials
         /\ callbacks'[r].args = Append(callbacks[r].args, Err(<<"ENOENT">>))
         /\ _error' = _error
         /\ last'.emitted = <<>>
         /\ ~crashed']_vars

\* index.html was removed, its reload failed and reported the error, and a
\* later serve of index hands its callback the text cached before
C20_ServedOldContent ==
  /\ Len(callbacks) = 1
  /\ callbacks[1].page = Str(Index)
  /\ callbacks[1].read = 0
  /\ callbacks[1].args = << Err(<<"ENOENT">>) >>
  /\ _error = Null
  /\ Rendered(Index, Str(FileText(getDirectory(viewsDir) \o IndexHtml, 1)))

\* The name has a Static entry in views or partials when the call starts.
StaticBefore(page) ==
  StaticIn(Before.views, getPages(page)[1]) \/ StaticIn(Before.partials, getPages(page)[2])

\* C21: a reloadStaticPage(names, cb) with a list of names has started a
\* readFile for every listed name that has a Static entry, whatever comes
\* before it in the list.
C21_ListReloadsEach ==
  (last.op = "reload" /\ last.page.t = "array") =>
    \A i \in 1..Len(last.page.v) :
      StaticBefore(last.page.v[i]) =>
        \E op \in last.started : op.op = "readFile" /\ op.page.name = last.page.v[i]

\* C23: when the home page calls data.layout(spec, html) and layout returns
\* (nothing is thrown, the callback gets the page), the context object the home
\* page was called with has the fields and values it was called with.
C23_LayoutKeepsContext ==
  (HomeServed("layout") /\ ~last.threw /\ Len(last.out) = 1) =>
    last.heap[last.calls[1].obj].fields = last.calls[1].fields

\* C26: every ready event the latest step emitted was emitted with the ready
\* property reading true.  (An emission records what ready read when the
\* handlers ran.)
C26_ReadyTrueAtEvent ==
  \A i \in 1..Len(last.emitted) :
    last.emitted[i][1] = "ready" => last.emitted[i][3] = TRUE

\* C22: a listing is started only for a directory, and a regular file that has
\* neither a static nor a dynamic extension (LICENSE has none) does not fail
\* the scan.
C22_FileSkipped ==
  /\ \A op \in pending : op.op = "readdir" => Exists(op.path)
  /\ ~scans[1].failed
  /\ _error = Null

\* The static files of the views namespace, each with the directory it is in.
StaticViewFiles ==
  { [dir |-> viewsDir, base |-> HomeHtml], [dir |-> viewsDir, base |-> SubXHtml],
    [dir |-> subDir, base |-> XHtml] }
FileKey(f) == pageName(Cur("index"), f.dir, parse(f.base))
FilePath(f) == getDirectory(f.dir) \o f.base

\* C27: once a scan in mode 'all' has succeeded in an installation where views
\* holds home.html next to home.js, the entry under home's key is the Static
\* one, with the text of home.html.
C27_StaticWins ==
  (Succeeded(1) /\ Exists(getDirectory(viewsDir) \o HomeHtml)) =>
    /\ views[viewKey(Cur("index"), Home)].type = "static"
    /\ views[viewKey(Cur("index"), Home)].content
         = FileText(getDirectory(viewsDir) \o HomeHtml, 1)

\* the scan succeeded with home.html and home.js in views and a file in sub
C27_TwinsScanned ==
  /\ Succeeded(1)
  /\ _ready
  /\ Exists(getDirectory(viewsDir) \o HomeHtml)
  /\ Exists(getDirectory(subDir) \o XHtml)
  /\ views[viewKey(Cur("index"), Home)].type = "static"

\* C28: once the scan has succeeded, every static file present in views or in
\* views/sub has the entry under its key to itself: the entry names that
\* file's directory and name and holds its text.
C28_KeysUnique ==
  Succeeded(1) =>
    \A f \in StaticViewFiles :
      Exists(FilePath(f)) =>
        /\ FileKey(f) \in DOMAIN views
        /\ views[FileKey(f)].dir = f.dir
        /\ views[FileKey(f)].page = parse(f.base).name
        /\ views[FileKey(f)].content = FileText(FilePath(f), 1)

\* The producer of an entry is a function: a page author's function, the
\* function returning a static file's text, or one of initPage's placeholders.
Callable(e) ==
  e.prog \in {"static", "interp", "layoutpage", "msg", "boom", "noop", "empty"}

\* C24: in every state each entry of views and of partials has a function as
\* its producer, and no step of a scan, a targeted, list or full reload, or of
\* a failed read takes a name out of views or partials.
C24_EntriesCallableAndKept ==
  /\ [](/\ \A k \in DOMAIN views : Callable(views[k])
        /\ \A k \in DOMAIN partials : Callable(partials[k]))
  /\ [][/\ DOMAIN views \subseteq DOMAIN views'
        /\ DOMAIN partials \subseteq DOMAIN partials']_vars

\* data.js, which exports no function, and bad.js, whose require throws, have
\* entries, index.html was removed, and a reload of index has failed
C24_AfterFailedReload ==
  /\ viewKey(Cur("index"), DataPage) \in DOMAIN views
  /\ viewKey(Cur("index"), <<"bad">>) \in DOMAIN views
  /\ viewKey(Cur("index"), Index) \in DOMAIN views
  /\ Len(callbacks) = 1
  /\ callbacks[1].page = Str(Index)
  /\ callbacks[1].read = 0
  /\ callbacks[1].args # <<>>

\* C25: once nothing of the initial scan is in flight, no step (of a targeted,
\* list or full reload and its callbacks) changes an entry that is Dynamic.
C25_DynamicUntouched ==
  [][(scans[1].got # <<>> /\ InFlight(1) = {}) =>
       /\ \A k \in DOMAIN views :
            views[k].type = "dynamic" => (k \in DOMAIN views' /\ views'[k] = views[k])
       /\ \A k \in DOMAIN partials :
            partials[k].type = "dynamic"
              => (k \in DOMAIN partials' /\ partials'[k] = partials[k])]_vars

\* C29: when two reloads of index have both completed with success, the cache
\* holds the text that the reload started second has read.  (Two reloads that
\* do not overlap give this by C8; the formula also covers those that do.)
C29_LaterReloadWins ==
  (/\ Len(callbacks) = 2
   /\ callbacks[1].args = <<Null>>
   /\ callbacks[2].args = <<Null>>)
  => views[viewKey(Cur("index"), Index)].content
       = FileText(getDirectory(viewsDir) \o IndexHtml, callbacks[2].read)

====
